---- MODULE Spec2Model ----
(***************************************************************************)
(* A model of infinispan/hotrod.py: the Hot Rod message shapes, the        *)
(* schema-driven codec engine of Protocol (_encode / _decode / decode),    *)
(* the correlation of responses to concurrent Protocol.send calls on one   *)
(* connection, and the connection pool the protocol runs over.             *)
(***************************************************************************)
EXTENDS Integers, Sequences, FiniteSets, TLC

VARIABLES
    \* ---- Protocol instance and its connection (Protocol.__init__) ----
    nextId,      \* Protocol._id
    idLock,      \* Protocol.lock: the thread inside _get_next_id, or 0
    idTmp,       \* per thread: self._id as loaded by `self._id += 1` (0 outside)
    resps,       \* Protocol._resps: id -> response
    connLock,    \* conn.lock: the thread inside `with self.conn.lock`, or 0
    objs,        \* the request objects the callers pass to send
    pc,          \* per thread: position inside Protocol.send
    request,     \* per thread: the request object passed to send (0: none)
    reqId,       \* per thread: the local req_id
    encoded,     \* per thread: the local encoded_request, until it is written
    response,    \* per thread: the local response, until it is stored
    retval,      \* per thread: what send returned
    polls,       \* per thread: frames read by the current send call
    outbound,    \* requests written to the connection whose response frame
                 \* has not been read yet
    allocated,   \* history: ids returned by _get_next_id, in allocation order
    written,     \* history: the frames written to the connection, by call
    \* ---- codec runs (Protocol.encode / Protocol.decode as functions) ----
    cArg,        \* the message or the frame handed to the codec
    cOut,        \* what the codec returned
    cPc,         \* "msg" | "frame" | "encoded" | "decoded"
    \* ---- connection pool ----
    busy,        \* per pooled connection: bound to an advanced, unfinished stream
    streams,     \* the response streams created by recv(), in creation order
    pending,     \* per pooled connection: response bytes arrived and not yet read
    \* ---- Protocol over a connection pool ----
    wire,        \* per pooled connection: the response bytes arrived, unread
    mine         \* per thread: the stream its send call got from recv() (0: none)

protoVars == <<nextId, idLock, idTmp, resps, connLock, objs, pc, request, reqId,
               encoded, response, retval, polls, outbound,
               allocated, written>>
codecVars == <<cArg, cOut, cPc>>
poolVars  == <<busy, streams, pending>>
linkVars  == <<wire, mine>>
vars      == <<protoVars, codecVars, poolVars, linkVars>>

-----------------------------------------------------------------------------
(* Constants of hotrod.py *)

BASIC == 1
SECONDS == 0
DAYS == 6
DEFAULT == 7
INFINITE == 8
OK == 0
KEY_DOES_NOT_EXISTS == 2
OK_WITH_VALUE == 3
SERVER_ERR == 133
REQ_MAGIC == 160
RESP_MAGIC == 161
VERSION == 25
DEFAULT_TTL == 10

\* A field slot: unset (Python None) or holding a value.
Unset == [some |-> FALSE]
Val(v) == [some |-> TRUE, val |-> v]

-----------------------------------------------------------------------------
(* Message shapes: the declarative field schema of hotrod.py *)

RequestClasses == {"GetRequest", "PutRequest", "PingRequest", "RemoveRequest",
                   "ContainsKeyRequest"}

\* Response.__subclasses__(), in definition order.
ResponseClasses == <<"GetResponse", "PutResponse", "PingResponse",
                     "ErrorResponse", "RemoveResponse", "ContainsKeyResponse">>

\* Mutant: the opcodes of RemoveResponse and ContainsKeyResponse exchanged.
OP_CODE_Exchanged(cls) ==
    CASE cls = "GetRequest" -> 3
      [] cls = "GetResponse" -> 4
      [] cls = "PutRequest" -> 1
      [] cls = "PutResponse" -> 2
      [] cls = "PingRequest" -> 23
      [] cls = "PingResponse" -> 24
      [] cls = "ErrorResponse" -> 80
      [] cls = "RemoveRequest" -> 11
      [] cls = "RemoveResponse" -> 16
      [] cls = "ContainsKeyRequest" -> 15
      [] cls = "ContainsKeyResponse" -> 12

OP_CODE(cls) ==
    CASE cls = "GetRequest" -> 3
      [] cls = "GetResponse" -> 4
      [] cls = "PutRequest" -> 1
      [] cls = "PutResponse" -> 2
      [] cls = "PingRequest" -> 23
      [] cls = "PingResponse" -> 24
      [] cls = "ErrorResponse" -> 80
      [] cls = "RemoveRequest" -> 11
      [] cls = "RemoveResponse" -> 12
      [] cls = "ContainsKeyRequest" -> 15
      [] cls = "ContainsKeyResponse" -> 16

\* message.fields: the field names of a shape in declaration order, the
\* inherited header first.
Fields(cls) ==
    CASE cls = "RequestHeader" ->
            <<"magic", "id", "version", "op", "cname", "flags", "ci", "t_id">>
      [] cls = "ResponseHeader" -> <<"magic", "id", "op", "status", "tcm">>
      [] cls = "GetRequest" -> <<"header", "key">>
      [] cls = "GetResponse" -> <<"header", "value">>
      [] cls = "PutRequest" ->
            <<"header", "key", "tunits", "lifespan", "max_idle", "value">>
      [] cls = "PutResponse" -> <<"header", "prev_value">>
      [] cls = "PingRequest" -> <<"header">>
      [] cls = "PingResponse" -> <<"header">>
      [] cls = "ErrorResponse" -> <<"header", "error_message">>
      [] cls = "RemoveRequest" -> <<"header", "key">>
      [] cls = "RemoveResponse" -> <<"header", "prev_value">>
      [] cls = "ContainsKeyRequest" -> <<"header", "key">>
      [] cls = "ContainsKeyResponse" -> <<"header">>

\* f_cls.type: the wire type each field is declared with.
FieldType(cls, f) ==
    CASE f = "header" -> "composite"
      [] f \in {"magic", "version", "op", "ci", "status", "tcm"} -> "byte"
      [] f = "id" -> "uvarlong"
      [] f \in {"flags", "t_id", "lifespan", "max_idle"} -> "uvarint"
      [] f \in {"cname", "error_message"} -> "string"
      [] f \in {"key", "value", "prev_value"} -> "bytes"
      [] f = "tunits" -> "splitbyte"

\* f_cls.optional: only RequestHeader.cname is declared optional=True.
IsOptional(cls, f) == cls = "RequestHeader" /\ f = "cname"

\* Mutant: the response fields declared without their condition.
HasConditionRequestsOnly(cls, f) ==
    cls = "PutRequest" /\ f \in {"lifespan", "max_idle"}

\* hasattr(f_cls, 'condition'): the fields declared with condition=...
HasCondition(cls, f) ==
    \/ cls = "GetResponse" /\ f = "value"
    \/ cls = "PutRequest" /\ f \in {"lifespan", "max_idle"}
    \/ cls \in {"PutResponse", "RemoveResponse"} /\ f = "prev_value"

\* Mutant: the two Put conditions look at each other's time unit.
ConditionSwapped(cls, f, message) ==
    CASE cls = "GetResponse" /\ f = "value" ->
            message.header.val.status = Val(OK)
      [] cls = "PutRequest" /\ f = "lifespan" ->
            message.tunits.val[2] \notin {DEFAULT, INFINITE}
      [] cls = "PutRequest" /\ f = "max_idle" ->
            message.tunits.val[1] \notin {DEFAULT, INFINITE}
      [] cls \in {"PutResponse", "RemoveResponse"} /\ f = "prev_value" ->
            message.header.val.status = Val(OK_WITH_VALUE)
      [] OTHER -> TRUE

\* Mutant: only the DEFAULT unit omits the varint, INFINITE does not.
ConditionDefaultOnly(cls, f, message) ==
    CASE cls = "GetResponse" /\ f = "value" ->
            message.header.val.status = Val(OK)
      [] cls = "PutRequest" /\ f = "lifespan" ->
            message.tunits.val[1] # DEFAULT
      [] cls = "PutRequest" /\ f = "max_idle" ->
            message.tunits.val[2] # DEFAULT
      [] cls \in {"PutResponse", "RemoveResponse"} /\ f = "prev_value" ->
            message.header.val.status = Val(OK_WITH_VALUE)
      [] OTHER -> TRUE

\* f_cls.condition(message): the lambdas of the field declarations.
Condition(cls, f, message) ==
    CASE cls = "GetResponse" /\ f = "value" ->
            message.header.val.status = Val(OK)
      [] cls = "PutRequest" /\ f = "lifespan" ->
            message.tunits.val[1] \notin {DEFAULT, INFINITE}
      [] cls = "PutRequest" /\ f = "max_idle" ->
            message.tunits.val[2] \notin {DEFAULT, INFINITE}
      [] cls \in {"PutResponse", "RemoveResponse"} /\ f = "prev_value" ->
            message.header.val.status = Val(OK_WITH_VALUE)
      [] OTHER -> TRUE

-----------------------------------------------------------------------------
(* Message construction: m.Message.__init__ with the declared defaults,    *)
(* then Request.__init__ / Response.__init__ setting header.op             *)

\* RequestHeader(): defaults of lines 53-60; id, op and cname start unset.
NewRequestHeader ==
    [cls |-> "RequestHeader", magic |-> Val(REQ_MAGIC), id |-> Unset,
     version |-> Val(VERSION), op |-> Unset, cname |-> Unset,
     flags |-> Val(0), ci |-> Val(BASIC), t_id |-> Val(0)]

\* ResponseHeader(): defaults of lines 64-68; id and op start unset.
NewResponseHeader ==
    [cls |-> "ResponseHeader", magic |-> Val(RESP_MAGIC), id |-> Unset,
     op |-> Unset, status |-> Val(OK), tcm |-> Val(0)]

\* The slots of a shape other than the header, at their declared defaults.
DefaultBody(cls) ==
    CASE cls \in {"GetRequest", "RemoveRequest", "ContainsKeyRequest"} ->
            [key |-> Unset]
      [] cls = "PutRequest" ->
            [key |-> Unset, tunits |-> Val(<<DEFAULT, DEFAULT>>),
             lifespan |-> Val(DEFAULT_TTL), max_idle |-> Val(DEFAULT_TTL),
             value |-> Unset]
      [] cls = "GetResponse" -> [value |-> Unset]
      [] cls \in {"PutResponse", "RemoveResponse"} -> [prev_value |-> Unset]
      [] cls = "ErrorResponse" -> [error_message |-> Unset]
      [] OTHER -> [cls |-> cls]

\* Mutant: Request.__init__ without `self.header.op = self.OP_CODE`.
NewRequestOpUnset(cls, kwargs) ==
    kwargs @@ DefaultBody(cls) @@ [cls |-> cls, header |-> Val(NewRequestHeader)]

\* Request(**kwargs): the defaults, overridden by kwargs, then
\* self.header.op = self.OP_CODE.
NewRequest(cls, kwargs) ==
    LET base == kwargs @@ DefaultBody(cls)
                       @@ [cls |-> cls, header |-> Val(NewRequestHeader)]
    IN  [base EXCEPT !.cls = cls,
                     !.header = Val([base.header.val EXCEPT !.op = Val(OP_CODE(cls))])]

\* Response(header=rh): the same for a response shape.
NewResponse(cls, kwargs) ==
    LET base == kwargs @@ DefaultBody(cls)
                       @@ [cls |-> cls, header |-> Val(NewResponseHeader)]
    IN  [base EXCEPT !.cls = cls,
                     !.header = Val([base.header.val EXCEPT !.op = Val(OP_CODE(cls))])]

-----------------------------------------------------------------------------
(* Field Type System: the wire encoders and decoders of infinispan.codec   *)

\* Op(a) and Op(a, b), with a and b evaluated once, before Op is applied.
Call1(Op(_), a) == CHOOSE r \in {Op(x) : x \in {a}} : TRUE
Call2(Op(_, _), a, b) == CHOOSE r \in {Op(x, y) : x \in {a}, y \in {b}} : TRUE

RECURSIVE Uvarint(_)
\* Base-128 little-endian groups, continuation bit in the top bit.
Uvarint(n) ==
    IF n < 128 THEN <<n>> ELSE <<(n % 128) + 128>> \o Uvarint(n \div 128)

\* getattr(encoder, f_cls.type)(f): the bytes one field adds.
EncodeValue(type, f) ==
    CASE type = "byte" -> <<f.val>>
      [] type \in {"uvarint", "uvarlong"} -> Uvarint(f.val)
      [] type \in {"bytes", "string"} ->
            IF f.some THEN Uvarint(Len(f.val)) \o f.val ELSE <<0>>
      [] type = "splitbyte" -> <<f.val[1] * 16 + f.val[2]>>

\* A decoder is the data and a read position; a read past the end fails.
DecodeFailed == [ok |-> FALSE]

ReadByte(data, pos) ==
    IF pos > Len(data) THEN DecodeFailed
    ELSE [ok |-> TRUE, val |-> data[pos], pos |-> pos + 1]

RECURSIVE ReadUvarint(_, _)
ReadUvarint(data, pos) ==
    IF pos > Len(data) THEN DecodeFailed
    ELSE IF data[pos] < 128 THEN [ok |-> TRUE, val |-> data[pos], pos |-> pos + 1]
    ELSE Call1(LAMBDA rest :
                 IF ~rest.ok THEN DecodeFailed
                 ELSE [ok |-> TRUE, val |-> (data[pos] - 128) + 128 * rest.val,
                       pos |-> rest.pos],
               ReadUvarint(data, pos + 1))

ReadBytes(data, pos) ==
    Call1(LAMBDA n :
            IF ~n.ok THEN DecodeFailed
            ELSE IF n.pos + n.val - 1 > Len(data) THEN DecodeFailed
            ELSE [ok |-> TRUE, val |-> SubSeq(data, n.pos, n.pos + n.val - 1),
                  pos |-> n.pos + n.val],
          ReadUvarint(data, pos))

\* getattr(decoder, f_cls.type)(): the value one field reads.
DecodeValue(type, data, pos) ==
    CASE type = "byte" -> ReadByte(data, pos)
      [] type \in {"uvarint", "uvarlong"} -> ReadUvarint(data, pos)
      [] type \in {"bytes", "string"} -> ReadBytes(data, pos)
      [] type = "splitbyte" ->
            LET b == ReadByte(data, pos)
            IN  IF ~b.ok THEN DecodeFailed
                ELSE [ok |-> TRUE, val |-> <<b.val \div 16, b.val % 16>>,
                      pos |-> b.pos]

-----------------------------------------------------------------------------
(* Codec Engine: Protocol._encode, Protocol.encode, Protocol._decode,      *)
(* Protocol.decode                                                         *)

EncodeError == [ok |-> FALSE, error |-> "EncodeError"]
DecodeError == [ok |-> FALSE, error |-> "DecodeError"]

RECURSIVE EncodeFrom(_, _, _)
\* The loop of _encode from field i on, the encoder holding `enc`.
EncodeFrom(message0, i, enc0) ==
    Call2(LAMBDA message, enc :
      IF i > Len(Fields(message.cls)) THEN [ok |-> TRUE, bytes |-> enc]
      ELSE
        LET f_name == Fields(message.cls)[i]
            f == message[f_name]
        IN  IF HasCondition(message.cls, f_name)
                  /\ ~Condition(message.cls, f_name, message)
            THEN EncodeFrom(message, i + 1, enc)
            ELSE IF ~f.some /\ ~IsOptional(message.cls, f_name)
            THEN EncodeError
            ELSE IF FieldType(message.cls, f_name) = "composite"
            THEN Call1(LAMBDA sub :
                         IF ~sub.ok THEN sub
                         ELSE EncodeFrom(message, i + 1, sub.bytes),
                       EncodeFrom(f.val, 1, enc))
            ELSE EncodeFrom(message, i + 1,
                     enc \o EncodeValue(FieldType(message.cls, f_name), f)),
      message0, enc0)

\* Protocol.encode(message): _encode(message, Encoder()).result()
Encode(message) == EncodeFrom(message, 1, <<>>)

RECURSIVE DecodeFrom(_, _, _, _)
\* The loop of _decode from field i on, the decoder at `pos` of `data`.
DecodeFrom(message0, i, data, pos0) ==
    Call2(LAMBDA message, pos :
      IF i > Len(Fields(message.cls))
      THEN [ok |-> TRUE, msg |-> message, pos |-> pos]
      ELSE
        LET f_name == Fields(message.cls)[i]
            f == message[f_name]
        IN  IF HasCondition(message.cls, f_name)
                  /\ ~Condition(message.cls, f_name, message)
            THEN DecodeFrom(message, i + 1, data, pos)
            ELSE IF FieldType(message.cls, f_name) = "composite"
            THEN Call1(LAMBDA sub :
                         IF ~sub.ok THEN sub
                         ELSE DecodeFrom([message EXCEPT ![f_name] = Val(sub.msg)],
                                         i + 1, data, sub.pos),
                       DecodeFrom(f.val, 1, data, pos))
            ELSE Call1(LAMBDA decoded :
                         IF ~decoded.ok THEN DecodeError
                         ELSE DecodeFrom([message EXCEPT ![f_name] = Val(decoded.val)],
                                         i + 1, data, decoded.pos),
                       DecodeValue(FieldType(message.cls, f_name), data, pos)),
      message0, pos0)

\* The loop over Response.__subclasses__(): the classes whose OP_CODE equals
\* the decoded opcode (the last match wins).
Dispatch(op) ==
    {i \in 1..Len(ResponseClasses) : OP_CODE(ResponseClasses[i]) = op}

\* Mutant: the second _decode called without skip_fields=1.
DecodeWithoutSkip(data) ==
    Call1(LAMBDA rh :
            IF ~rh.ok THEN DecodeError
            ELSE LET hits == Dispatch(rh.msg.op.val)
                 IN  IF hits = {} THEN DecodeError
                     ELSE LET resp_cls == ResponseClasses[
                                    CHOOSE i \in hits : \A j \in hits : j <= i]
                              resp == NewResponse(resp_cls, [header |-> Val(rh.msg)])
                          IN  DecodeFrom(resp, 1, data, rh.pos),
          DecodeFrom(NewResponseHeader, 1, data, 1))

\* Protocol.decode(data)
Decode(data) ==
    Call1(LAMBDA rh :
            IF ~rh.ok THEN DecodeError
            ELSE LET hits == Dispatch(rh.msg.op.val)
                 IN  IF hits = {} THEN DecodeError
                     ELSE LET resp_cls == ResponseClasses[
                                    CHOOSE i \in hits : \A j \in hits : j <= i]
                              resp == NewResponse(resp_cls, [header |-> Val(rh.msg)])
                          IN  DecodeFrom(resp, 2, data, rh.pos),
          DecodeFrom(NewResponseHeader, 1, data, 1))

-----------------------------------------------------------------------------
(* Bounds of the model *)

\* The send calls made on the Protocol instance, each in a thread of its
\* own: they may overlap in any way or follow one another.
NumThreads == 2

Threads == 1..NumThreads

-----------------------------------------------------------------------------
(* The remote server and the socket connection (external collaborators)    *)

\* The request objects callers build and pass to send, one caller its own
\* or the one another caller uses: a get; a put whose lifespan was cleared
\* but whose lifespan unit is DEFAULT; a put whose max-idle was cleared and
\* whose max-idle unit is SECONDS.
RequestPool ==
    <<NewRequest("GetRequest", [key |-> Val(<<7>>)]),
      NewRequest("PutRequest", [key |-> Val(<<7>>), value |-> Val(<<9>>),
                                tunits |-> Val(<<DEFAULT, SECONDS>>),
                                lifespan |-> Unset]),
      NewRequest("PutRequest", [key |-> Val(<<7>>), value |-> Val(<<9>>),
                                tunits |-> Val(<<DEFAULT, SECONDS>>),
                                max_idle |-> Unset])>>

Objs == DOMAIN RequestPool

\* The id and the opcode the server reads from a request frame.
FrameId(frame) == ReadUvarint(frame, 2)
FrameOp(frame) == frame[FrameId(frame).pos + 1]

\* The one well-formed response frame the server answers a request with.
ServerReply(frame) ==
    <<RESP_MAGIC>> \o Uvarint(FrameId(frame).val)
        \o <<FrameOp(frame) + 1, OK, 0>>
        \o (IF FrameOp(frame) = OP_CODE("GetRequest") THEN <<1, 42>> ELSE <<>>)

\* An opcode no response shape declares.
UNKNOWN_OP == 81

\* The frames a faulty server may answer a request with instead: one with an
\* opcode of no response shape, and one cut short inside the header.
GarbledReplies(frame) ==
    {<<RESP_MAGIC>> \o Uvarint(FrameId(frame).val) \o <<UNKNOWN_OP, OK, 0>>,
     <<RESP_MAGIC>> \o Uvarint(FrameId(frame).val) \o <<FrameOp(frame) + 1>>}

\* What conn.send and the read of conn.recv() raise when the transport fails
\* (remote closed, refused, read timeout).
ConnectionError == [ok |-> FALSE, error |-> "ConnectionError"]

-----------------------------------------------------------------------------
(* Protocol.send, one action per step of a calling thread *)

NoFrame == <<>>

\* Requests written and not yet returned to their callers.
Outstanding == {t \in Threads : pc[t] \in {"loop", "acquire", "recv", "store",
                                          "release", "return"}}

\* The id a response carries in its decoded header.
HeaderId(resp) == resp.header.val.id.val

\* Mutant: _get_next_id without `with self.lock`.
IdLockIgnored == TRUE

\* threading.Lock.acquire on Protocol.lock: free when no thread holds it.
IdLockFree == idLock = 0

\* Mutant: the poll without `with self.conn.lock`.
ConnLockIgnored == TRUE

\* threading.Lock.acquire on conn.lock.
ConnLockFree == connLock = 0

\* `req_id not in self._resps` is false: the wait is over.
WaitOver(t) == reqId[t] \in DOMAIN resps

\* The key `self._resps[req_id] = response` stores the decoded response under.
StoreKey(t) == reqId[t]

\* `return self._resps[req_id]`: the table the call leaves behind.
TableAfterReturn(t) == resps

\* Mutant: the with block left without releasing conn.lock.
LockKept(t) == t

\* The holder of conn.lock once thread t has left `with self.conn.lock`.
LockAfterCycle(t) == 0

\* A thread calls send(request) with one of the request objects.
Call(t, o) ==
    /\ pc[t] = "idle"
    /\ pc' = [pc EXCEPT ![t] = "get_id"]
    /\ request' = [request EXCEPT ![t] = o]
    /\ UNCHANGED <<nextId, idLock, idTmp, resps, connLock, objs, reqId, encoded,
                   response, retval, polls, outbound, allocated, written>>

\* _get_next_id: `with self.lock:` entered, self._id loaded by `+= 1`.
GetNextIdEnter(t) ==
    /\ pc[t] = "get_id"
    /\ IdLockFree
    /\ idLock' = t
    /\ idTmp' = [idTmp EXCEPT ![t] = nextId]
    /\ pc' = [pc EXCEPT ![t] = "inc_id"]
    /\ UNCHANGED <<nextId, resps, connLock, objs, request, reqId, encoded,
                   response, retval, polls, outbound, allocated, written>>

\* _get_next_id: self._id stored, returned, the lock released.
GetNextIdReturn(t) ==
    /\ pc[t] = "inc_id"
    /\ nextId' = idTmp[t] + 1
    /\ reqId' = [reqId EXCEPT ![t] = idTmp[t] + 1]
    /\ allocated' = Append(allocated, idTmp[t] + 1)
    /\ idLock' = 0
    /\ idTmp' = [idTmp EXCEPT ![t] = 0]
    /\ pc' = [pc EXCEPT ![t] = "set_id"]
    /\ UNCHANGED <<resps, connLock, objs, request, encoded, response,
                   retval, polls, outbound, written>>

\* request.header.id = req_id
SetHeaderId(t) ==
    /\ pc[t] = "set_id"
    /\ objs' = [objs EXCEPT ![request[t]] =
                  [@ EXCEPT !.header = Val([@.val EXCEPT !.id = Val(reqId[t])])]]
    /\ pc' = [pc EXCEPT ![t] = "encode"]
    /\ UNCHANGED <<nextId, idLock, idTmp, resps, connLock, request, reqId,
                   encoded, response, retval, polls, outbound,
                   allocated, written>>

\* encoded_request = self.encode(request); an EncodeError leaves send.
EncodeRequest(t) ==
    /\ pc[t] = "encode"
    /\ \E e \in {Encode(objs[request[t]])} :
           IF e.ok
           THEN /\ encoded' = [encoded EXCEPT ![t] = e.bytes]
                /\ pc' = [pc EXCEPT ![t] = "write"]
                /\ retval' = retval
           ELSE /\ encoded' = encoded
                /\ pc' = [pc EXCEPT ![t] = "raised"]
                /\ retval' = [retval EXCEPT ![t] = e]
    /\ UNCHANGED <<nextId, idLock, idTmp, resps, connLock, objs, request, reqId,
                   response, polls, outbound, allocated, written>>

\* self.conn.send(encoded_request)
WriteRequest(t) ==
    /\ pc[t] = "write"
    /\ outbound' = outbound \cup {[call |-> reqId[t], frame |-> encoded[t]]}
    /\ written' = written \cup {[call |-> reqId[t], frame |-> encoded[t]]}
    /\ encoded' = [encoded EXCEPT ![t] = NoFrame]
    /\ pc' = [pc EXCEPT ![t] = "loop"]
    /\ UNCHANGED <<nextId, idLock, idTmp, resps, connLock, objs, request, reqId,
                   response, retval, polls, allocated>>

\* while req_id not in self._resps
LoopTest(t) ==
    /\ pc[t] = "loop"
    /\ pc' = [pc EXCEPT ![t] = IF WaitOver(t) THEN "return" ELSE "acquire"]
    /\ UNCHANGED <<nextId, idLock, idTmp, resps, connLock, objs, request, reqId,
                   encoded, response, retval, polls, outbound,
                   allocated, written>>

\* with self.conn.lock: (entry)
AcquireRecv(t) ==
    /\ pc[t] = "acquire"
    /\ ConnLockFree
    /\ connLock' = t
    /\ pc' = [pc EXCEPT ![t] = "recv"]
    /\ UNCHANGED <<nextId, idLock, idTmp, resps, objs, request, reqId, encoded,
                   response, retval, polls, outbound, allocated, written>>

\* data = self.conn.recv(); response = self.decode(data): one frame is read
\* from the connection and decoded. The server answers the requests it has
\* received in any order, so the frame that arrives next is the response to
\* any request written and not yet answered; with none, the read blocks.
\* A DecodeError leaves the with block (releasing the lock) and send.
RecvFrame(t, w, frame) ==
    /\ pc[t] = "recv"
    /\ w \in outbound
    /\ outbound' = outbound \ {w}
    /\ polls' = [polls EXCEPT ![t] = @ + 1]
    /\ \E d \in {Decode(frame)} :
           IF d.ok
           THEN /\ response' = [response EXCEPT ![t] = Val(d.msg)]
                /\ pc' = [pc EXCEPT ![t] = "store"]
                /\ UNCHANGED <<connLock, retval>>
           ELSE /\ response' = response
                /\ pc' = [pc EXCEPT ![t] = "raised"]
                /\ connLock' = LockAfterCycle(t)
                /\ retval' = [retval EXCEPT ![t] = d]
    /\ UNCHANGED <<nextId, idLock, idTmp, resps, objs, request, reqId, encoded,
                   allocated, written>>

\* The frame read is the well-formed response to request w.
RecvDecode(t, w) == RecvFrame(t, w, ServerReply(w.frame))

\* The frame read is a malformed answer to request w.
RecvGarbled(t, w) == \E frame \in GarbledReplies(w.frame) : RecvFrame(t, w, frame)

\* Mutant: send catches the ConnectionError and goes on waiting.
WaitAfterConnectionError(t) == "loop"

\* Nothing in send catches a ConnectionError: it leaves the call.
AfterConnectionError(t) == "raised"

\* self.conn.send(encoded_request) raises ConnectionError: nothing reaches
\* the server.
WriteFails(t) ==
    /\ pc[t] = "write"
    /\ encoded' = [encoded EXCEPT ![t] = NoFrame]
    /\ retval' = [retval EXCEPT ![t] = ConnectionError]
    /\ pc' = [pc EXCEPT ![t] = AfterConnectionError(t)]
    /\ UNCHANGED <<nextId, idLock, idTmp, resps, connLock, objs, request, reqId,
                   response, polls, outbound, allocated, written>>

\* The read of the frame raises ConnectionError inside `with self.conn.lock`
\* (a frame may or may not be on its way; with none the read times out):
\* the with block is left, releasing the lock, and then send.
RecvFails(t) ==
    /\ pc[t] = "recv"
    /\ connLock' = LockAfterCycle(t)
    /\ retval' = [retval EXCEPT ![t] = ConnectionError]
    /\ pc' = [pc EXCEPT ![t] = AfterConnectionError(t)]
    /\ UNCHANGED <<nextId, idLock, idTmp, resps, objs, request, reqId, encoded,
                   response, polls, outbound, allocated, written>>

\* self._resps[req_id] = response
StoreResponse(t) ==
    /\ pc[t] = "store"
    /\ resps' = (StoreKey(t) :> response[t].val) @@ resps
    /\ response' = [response EXCEPT ![t] = Unset]
    /\ pc' = [pc EXCEPT ![t] = "release"]
    /\ UNCHANGED <<nextId, idLock, idTmp, connLock, objs, request, reqId,
                   encoded, retval, polls, outbound, allocated, written>>

\* with self.conn.lock: (exit)
ReleaseRecv(t) ==
    /\ pc[t] = "release"
    /\ connLock' = LockAfterCycle(t)
    /\ pc' = [pc EXCEPT ![t] = "loop"]
    /\ UNCHANGED <<nextId, idLock, idTmp, resps, objs, request, reqId, encoded,
                   response, retval, polls, outbound, allocated, written>>

\* return self._resps[req_id]
ReturnResponse(t) ==
    /\ pc[t] = "return"
    /\ retval' = [retval EXCEPT ![t] = Val(resps[reqId[t]])]
    /\ resps' = TableAfterReturn(t)
    /\ pc' = [pc EXCEPT ![t] = "done"]
    /\ UNCHANGED <<nextId, idLock, idTmp, connLock, objs, request, reqId,
                   encoded, response, polls, outbound, allocated, written>>

\* The steps of thread t inside send.
SendStep(t) ==
    \/ GetNextIdEnter(t)
    \/ GetNextIdReturn(t)
    \/ SetHeaderId(t)
    \/ EncodeRequest(t)
    \/ WriteRequest(t)
    \/ LoopTest(t)
    \/ AcquireRecv(t)
    \/ \E w \in outbound : RecvDecode(t, w)
    \/ StoreResponse(t)
    \/ ReleaseRecv(t)
    \/ ReturnResponse(t)

\* The codec and the pool at rest while the protocol runs.
CodecIdle == cArg = <<>> /\ cOut = <<>> /\ cPc = "off"
PoolIdle == busy = <<>> /\ streams = <<>> /\ pending = <<>>
LinkIdle == wire = <<>> /\ mine = <<>>
\* The protocol at rest while the codec or the pool runs.
ProtoIdle ==
    /\ nextId = 0 /\ idLock = 0 /\ connLock = 0
    /\ idTmp = <<>> /\ resps = <<>> /\ objs = <<>> /\ pc = <<>>
    /\ request = <<>> /\ reqId = <<>> /\ encoded = <<>> /\ response = <<>>
    /\ retval = <<>> /\ polls = <<>> /\ outbound = {}
    /\ allocated = <<>> /\ written = {}

-----------------------------------------------------------------------------
(* Protocol.encode and Protocol.decode run on their own *)

\* Ids of one, two and two bytes on the wire.
CodecIds == {1, 128, 300}

\* The request headers handed to encode.
RequestHeaders(cls) ==
    {[NewRequest(cls, <<>>).header.val EXCEPT !.id = i, !.cname = c, !.version = v] :
        i \in {Unset} \cup {Val(n) : n \in CodecIds},
        c \in {Unset, Val(<<99, 100>>)},
        v \in {Unset, Val(VERSION)}}

PutUnits == {SECONDS, DAYS, DEFAULT, INFINITE}

\* The messages of shape cls handed to encode.
MessagesOf(cls) ==
    CASE cls = "PingRequest" ->
            {NewRequest(cls, [header |-> Val(h)]) : h \in RequestHeaders(cls)}
      [] cls = "GetRequest" ->
            {NewRequest(cls, [header |-> Val(h), key |-> k]) :
                h \in RequestHeaders(cls), k \in {Unset, Val(<<>>), Val(<<1, 2>>)}}
      [] cls = "PutRequest" ->
            {NewRequest(cls, [header |-> Val(h), key |-> k, tunits |-> u,
                              lifespan |-> l, max_idle |-> m, value |-> v]) :
                h \in {[NewRequest(cls, <<>>).header.val EXCEPT !.id = Val(1)]},
                k \in {Unset, Val(<<1>>)},
                u \in {Unset} \cup {Val(<<a, b>>) : a, b \in PutUnits},
                l \in {Unset, Val(0), Val(300)},
                m \in {Unset, Val(DEFAULT_TTL)},
                v \in {Unset, Val(<<5, 6>>)}}

EncodedShapes == {"PingRequest", "GetRequest", "PutRequest"}

\* The response opcodes, two request opcodes and two opcodes of no shape.
FrameOps == {2, 4, 12, 16, 24, 80, 1, 3, 0, 81}
FrameStatuses == {OK, KEY_DOES_NOT_EXISTS, OK_WITH_VALUE, SERVER_ERR}
\* No body, an empty value, a two byte value, a value cut short.
FrameBodies == {<<>>, <<0>>, <<2, 9, 9>>, <<3, 9>>}

\* The byte sources handed to decode.
Frames ==
    {<<RESP_MAGIC>> \o Uvarint(i) \o <<op, st, tcm>> \o body :
        i \in CodecIds, op \in FrameOps, st \in FrameStatuses,
        tcm \in {0, 1}, body \in FrameBodies}

\* The response headers handed to encode.
ResponseHeaders(cls) ==
    {[NewResponse(cls, <<>>).header.val EXCEPT !.id = i, !.status = Val(st),
                                              !.tcm = Val(tcm)] :
        i \in {Unset} \cup {Val(n) : n \in CodecIds},
        st \in FrameStatuses, tcm \in {0, 1}}

\* The responses of shape cls handed to encode.
ResponsesOf(cls) ==
    CASE cls = "GetResponse" ->
            {NewResponse(cls, [header |-> Val(h), value |-> v]) :
                h \in ResponseHeaders(cls), v \in {Unset, Val(<<>>), Val(<<1, 2>>)}}
      [] cls \in {"PutResponse", "RemoveResponse"} ->
            {NewResponse(cls, [header |-> Val(h), prev_value |-> v]) :
                h \in ResponseHeaders(cls), v \in {Unset, Val(<<1, 2>>)}}
      [] cls = "ErrorResponse" ->
            {NewResponse(cls, [header |-> Val(h), error_message |-> v]) :
                h \in ResponseHeaders(cls), v \in {Unset, Val(<<104, 105>>)}}
      [] OTHER ->
            {NewResponse(cls, [header |-> Val(h)]) : h \in ResponseHeaders(cls)}

ResponseShapes == {ResponseClasses[i] : i \in DOMAIN ResponseClasses}

CodecInit ==
    /\ \/ cPc = "msg" /\ \E cls \in EncodedShapes : cArg \in MessagesOf(cls)
       \/ cPc = "msg" /\ \E cls \in ResponseShapes : cArg \in ResponsesOf(cls)
       \/ cPc = "frame" /\ cArg \in Frames
    /\ cOut = <<>>
    /\ ProtoIdle
    /\ PoolIdle
    /\ LinkIdle

\* Protocol.encode(message)
EncodeMessage ==
    /\ cPc = "msg"
    /\ cOut' = Encode(cArg)
    /\ cPc' = "encoded"
    /\ UNCHANGED <<cArg, protoVars, poolVars, linkVars>>

\* Protocol.decode(data)
DecodeFrame ==
    /\ cPc = "frame"
    /\ cOut' = Decode(cArg)
    /\ cPc' = "decoded"
    /\ UNCHANGED <<cArg, protoVars, poolVars, linkVars>>

\* Protocol.decode(Protocol.encode(message)): the encoded bytes handed to
\* decode.
DecodeEncoded ==
    /\ cPc = "encoded"
    /\ cOut.ok
    /\ cOut' = Decode(cOut.bytes)
    /\ cPc' = "roundtrip"
    /\ UNCHANGED <<cArg, protoVars, poolVars, linkVars>>

CodecNext == EncodeMessage \/ DecodeFrame \/ DecodeEncoded

CodecSpec == CodecInit /\ [][CodecNext]_vars

-----------------------------------------------------------------------------
(* Connection Pool: send, recv and the response streams recv returns *)

PoolSize == 2        \* connections in the pool
MaxStreams == 3      \* response streams created by recv()
MaxPending == 1      \* response bytes waiting on one connection

Conns == 1..PoolSize

\* ConnectionPool.available: the connections bound to no unfinished stream.
Available == PoolSize - Cardinality({c \in Conns : busy[c]})

\* ConnectionPool(connections).connect(): every connection idle, no stream.
PoolInit ==
    /\ busy = [c \in Conns |-> FALSE]
    /\ streams = <<>>
    /\ pending = [c \in Conns |-> 0]
    /\ ProtoIdle
    /\ CodecIdle
    /\ LinkIdle

\* send(bytes): written on any connection, which the server answers; the
\* send reserves nothing.
PoolSend(c) ==
    /\ pending[c] < MaxPending
    /\ pending' = [pending EXCEPT ![c] = @ + 1]
    /\ UNCHANGED <<busy, streams, protoVars, codecVars, linkVars>>

\* recv(): a new stream bound to one connection, not yet advanced.
PoolRecv(c) ==
    /\ Len(streams) < MaxStreams
    /\ streams' = Append(streams, [conn |-> c, state |-> "idle", advanced |-> FALSE])
    /\ UNCHANGED <<busy, pending, protoVars, codecVars, linkVars>>

\* Mutant: the first advance does not wait for the connection to be idle.
SlotTakenAnyway(c) == TRUE

\* The first advance of a stream takes the pool slot of its connection, and
\* waits while another unfinished stream holds it.
SlotFree(c) == ~busy[c]

\* Mutant: early termination leaves the slot busy.
BusyAfterCancelLeak(i) == busy[streams[i].conn]

\* The busy mark of the stream's connection after the stream is terminated
\* early: released if the stream held the slot.
BusyAfterCancel(i) ==
    IF streams[i].state = "reading" THEN FALSE ELSE busy[streams[i].conn]

\* Mutant: an advance that yields a byte leaves the busy mark as it was.
BusyUnmarked(c) == busy[c]

\* The busy mark of the connection after an advance that yielded a byte.
BusyAfterAdvance(c) == TRUE

\* next(stream): the first advance marks the connection busy; each advance
\* yields one byte; at end-of-data the stream is done and the connection
\* idle again.
Advance(i) ==
    LET c == streams[i].conn
    IN  /\ \/ streams[i].state = "idle" /\ SlotFree(c)
           \/ streams[i].state = "reading"
        /\ IF pending[c] > 0
           THEN /\ pending' = [pending EXCEPT ![c] = @ - 1]
                /\ busy' = [busy EXCEPT ![c] = BusyAfterAdvance(c)]
                /\ streams' = [streams EXCEPT ![i].state = "reading",
                                              ![i].advanced = TRUE]
           ELSE /\ pending' = pending
                /\ busy' = [busy EXCEPT ![c] = FALSE]
                /\ streams' = [streams EXCEPT ![i].state = "done",
                                              ![i].advanced = TRUE]
        /\ UNCHANGED <<protoVars, codecVars, linkVars>>

\* stream.send(0) / close(): the stream is terminated before exhaustion.
Cancel(i) ==
    /\ streams[i].state \in {"idle", "reading"}
    /\ busy' = [busy EXCEPT ![streams[i].conn] = BusyAfterCancel(i)]
    /\ streams' = [streams EXCEPT ![i].state = "cancelled"]
    /\ UNCHANGED <<pending, protoVars, codecVars, linkVars>>

PoolNext ==
    \/ \E c \in Conns : PoolSend(c)
    \/ \E c \in Conns : PoolRecv(c)
    \/ \E i \in DOMAIN streams : Advance(i)
    \/ \E i \in DOMAIN streams : Cancel(i)

PoolSpec == PoolInit /\ [][PoolNext]_vars

-----------------------------------------------------------------------------
\* Protocol(conn): _id = 0, _resps = {}, both locks free, no call started.
ProtoInit ==
    /\ nextId = 0
    /\ idLock = 0
    /\ connLock = 0
    /\ idTmp = [t \in Threads |-> 0]
    /\ resps = <<>>
    /\ objs = RequestPool
    /\ pc = [t \in Threads |-> "idle"]
    /\ request = [t \in Threads |-> 0]
    /\ reqId = [t \in Threads |-> 0]
    /\ encoded = [t \in Threads |-> NoFrame]
    /\ response = [t \in Threads |-> Unset]
    /\ retval = [t \in Threads |-> Unset]
    /\ polls = [t \in Threads |-> 0]
    /\ outbound = {}
    /\ allocated = <<>>
    /\ written = {}

\* The protocol on one socket connection.
Init ==
    /\ ProtoInit
    /\ CodecIdle
    /\ PoolIdle
    /\ LinkIdle

\* A step of thread t, the codec runs and the pool untouched.
ThreadStep(t) == SendStep(t) /\ UNCHANGED <<codecVars, poolVars, linkVars>>

Next ==
    \/ \E t \in Threads, o \in Objs : Call(t, o) /\ UNCHANGED <<codecVars, poolVars, linkVars>>
    \/ \E t \in Threads : ThreadStep(t)

Spec == Init /\ [][Next]_vars

\* The receive lock is granted fairly and every thread keeps running.
FairSpec ==
    /\ Init /\ [][Next]_vars
    /\ \A t \in Threads : SF_vars(ThreadStep(t))

\* The same protocol on a connection that may fail and with a server that
\* may answer with malformed frames.
FaultNext ==
    \/ \E t \in Threads, o \in Objs : Call(t, o) /\ UNCHANGED <<codecVars, poolVars, linkVars>>
    \/ \E t \in Threads : ThreadStep(t)
    \/ \E t \in Threads, w \in outbound :
          RecvGarbled(t, w) /\ UNCHANGED <<codecVars, poolVars, linkVars>>
    \/ \E t \in Threads : WriteFails(t) /\ UNCHANGED <<codecVars, poolVars, linkVars>>
    \/ \E t \in Threads : RecvFails(t) /\ UNCHANGED <<codecVars, poolVars, linkVars>>

FaultSpec == Init /\ [][FaultNext]_vars

-----------------------------------------------------------------------------
(* Protocol.send over a connection pool: conn.send writes on any            *)
(* connection, conn.recv() returns a response stream, decode reads from it *)

\* Protocol(pool) on a connected pool: every connection idle, no stream.
PooledInit ==
    /\ ProtoInit
    /\ CodecIdle
    /\ busy = [c \in Conns |-> FALSE]
    /\ streams = <<>>
    /\ pending = <<>>
    /\ wire = [c \in Conns |-> <<>>]
    /\ mine = [t \in Threads |-> 0]

\* The frames the server may answer a request with.
Replies(frame) == {ServerReply(frame)} \cup GarbledReplies(frame)

\* The steps of send that do not touch the connection.
LocalStep(t) ==
    \/ GetNextIdEnter(t)
    \/ GetNextIdReturn(t)
    \/ SetHeaderId(t)
    \/ EncodeRequest(t)
    \/ LoopTest(t)
    \/ AcquireRecv(t)
    \/ StoreResponse(t)
    \/ ReleaseRecv(t)
    \/ ReturnResponse(t)

\* self.conn.send(encoded_request): the pool writes on any connection c and
\* the server answers on that connection.
PooledWrite(t, c, reply) ==
    /\ pc[t] = "write"
    /\ wire' = [wire EXCEPT ![c] = @ \o reply]
    /\ written' = written \cup {[call |-> reqId[t], frame |-> encoded[t]]}
    /\ encoded' = [encoded EXCEPT ![t] = NoFrame]
    /\ pc' = [pc EXCEPT ![t] = "loop"]
    /\ UNCHANGED <<nextId, idLock, idTmp, resps, connLock, objs, request, reqId,
                   response, retval, polls, outbound, allocated,
                   busy, streams, pending, mine, codecVars>>

\* data = self.conn.recv(): a stream bound to a connection, not yet advanced.
PooledRecv(t, c) ==
    /\ pc[t] = "recv"
    /\ streams' = Append(streams, [conn |-> c, state |-> "idle", advanced |-> FALSE])
    /\ mine' = [mine EXCEPT ![t] = Len(streams) + 1]
    /\ pc' = [pc EXCEPT ![t] = "pull"]
    /\ UNCHANGED <<nextId, idLock, idTmp, resps, connLock, objs, request, reqId,
                   encoded, response, retval, polls, outbound, allocated, written,
                   busy, pending, wire, codecVars>>

\* self.decode(data), the first read of the Decoder: the first advance of
\* the stream waits for the slot of its connection and takes it. With no
\* byte arrived the read times out: the stream ends and the ConnectionError
\* leaves the with block and send.
StreamOpen(t) ==
    LET i == mine[t]
        c == streams[i].conn
    IN  /\ pc[t] = "pull"
        /\ SlotFree(c)
        /\ IF wire[c] # <<>>
           THEN /\ busy' = [busy EXCEPT ![c] = BusyAfterAdvance(c)]
                /\ streams' = [streams EXCEPT ![i].state = "reading",
                                              ![i].advanced = TRUE]
                /\ pc' = [pc EXCEPT ![t] = "decode"]
                /\ UNCHANGED <<connLock, retval>>
           ELSE /\ busy' = busy
                /\ streams' = [streams EXCEPT ![i].state = "done",
                                              ![i].advanced = TRUE]
                /\ connLock' = LockAfterCycle(t)
                /\ retval' = [retval EXCEPT ![t] = ConnectionError]
                /\ pc' = [pc EXCEPT ![t] = AfterConnectionError(t)]
        /\ UNCHANGED <<nextId, idLock, idTmp, resps, objs, request, reqId,
                       encoded, response, polls, outbound, allocated, written,
                       pending, wire, mine, codecVars>>

\* Mutant: decode returns without terminating the stream.
StreamLeftOpen == FALSE

\* decode, after the response is decoded: hasattr(data, "send") holds for a
\* stream, so data.send(0) terminates it.
TerminatesStream == TRUE

\* decode raising DecodeError: the raise leaves decode before data.send(0).
TerminatesStreamOnError == FALSE

\* The decoded opcode is one no response shape declares.
UnknownOpcode(data) ==
    Call1(LAMBDA rh : rh.ok /\ Dispatch(rh.msg.op.val) = {},
          DecodeFrom(NewResponseHeader, 1, data, 1))

\* The bytes of data a decode that fails has read: up to the end of the
\* header for an unknown opcode, and all of them when the input is cut short.
ReadBeforeError(data) ==
    IF UnknownOpcode(data)
    THEN DecodeFrom(NewResponseHeader, 1, data, 1).pos - 1
    ELSE Len(data)

\* self.decode(data), the rest: the Decoder reads the bytes the shape needs
\* from the stream. A response decoded, the stream is terminated. Input cut
\* short runs the stream to end-of-data, which ends it, and raises
\* DecodeError; an unknown opcode raises DecodeError with the stream as it is.
StreamDecode(t) ==
    LET i == mine[t]
        c == streams[i].conn
    IN  /\ pc[t] = "decode"
        /\ polls' = [polls EXCEPT ![t] = @ + 1]
        /\ \E d \in {Decode(wire[c])} :
              IF d.ok
              THEN /\ wire' = [wire EXCEPT ![c] = SubSeq(@, d.pos, Len(@))]
                   /\ streams' = [streams EXCEPT ![i].state =
                                     IF TerminatesStream THEN "cancelled" ELSE @]
                   /\ busy' = [busy EXCEPT ![c] = IF TerminatesStream THEN FALSE ELSE @]
                   /\ response' = [response EXCEPT ![t] = Val(d.msg)]
                   /\ pc' = [pc EXCEPT ![t] = "store"]
                   /\ UNCHANGED <<connLock, retval>>
              ELSE \E n \in {ReadBeforeError(wire[c])} :
                   /\ wire' = [wire EXCEPT ![c] = SubSeq(@, n + 1, Len(@))]
                   /\ IF UnknownOpcode(wire[c])
                      THEN /\ streams' = [streams EXCEPT ![i].state =
                                     IF TerminatesStreamOnError THEN "cancelled" ELSE @]
                           /\ busy' = [busy EXCEPT ![c] =
                                     IF TerminatesStreamOnError THEN FALSE ELSE @]
                      ELSE /\ streams' = [streams EXCEPT ![i].state = "done"]
                           /\ busy' = [busy EXCEPT ![c] = FALSE]
                   /\ response' = response
                   /\ connLock' = LockAfterCycle(t)
                   /\ retval' = [retval EXCEPT ![t] = d]
                   /\ pc' = [pc EXCEPT ![t] = "raised"]
        /\ UNCHANGED <<nextId, idLock, idTmp, resps, objs, request, reqId,
                       encoded, outbound, allocated, written,
                       pending, mine, codecVars>>

\* A read of the stream raises ConnectionError while decode runs: the stream
\* ends, releasing its slot, and the error leaves the with block and send.
StreamFails(t) ==
    LET i == mine[t]
        c == streams[i].conn
    IN  /\ pc[t] = "decode"
        /\ streams' = [streams EXCEPT ![i].state = "done"]
        /\ busy' = [busy EXCEPT ![c] = FALSE]
        /\ connLock' = LockAfterCycle(t)
        /\ retval' = [retval EXCEPT ![t] = ConnectionError]
        /\ pc' = [pc EXCEPT ![t] = AfterConnectionError(t)]
        /\ UNCHANGED <<nextId, idLock, idTmp, resps, objs, request, reqId,
                       encoded, response, polls, outbound, allocated, written,
                       pending, wire, mine, codecVars>>

\* The runtime finalises the stream a failed call left behind, at some later
\* time or never: the stream is closed and its slot released.
Finalize(i) ==
    /\ streams[i].state = "reading"
    /\ \E t \in Threads : mine[t] = i /\ pc[t] = "raised"
    /\ streams' = [streams EXCEPT ![i].state = "cancelled"]
    /\ busy' = [busy EXCEPT ![streams[i].conn] = FALSE]
    /\ UNCHANGED <<protoVars, codecVars, pending, wire, mine>>

PooledNext ==
    \/ \E t \in Threads, o \in Objs :
          Call(t, o) /\ UNCHANGED <<codecVars, poolVars, linkVars>>
    \/ \E t \in Threads : LocalStep(t) /\ UNCHANGED <<codecVars, poolVars, linkVars>>
    \/ \E t \in Threads, c \in Conns :
          /\ pc[t] = "write"
          /\ \E reply \in Replies(encoded[t]) : PooledWrite(t, c, reply)
    \/ \E t \in Threads, c \in Conns : PooledRecv(t, c)
    \/ \E t \in Threads : StreamOpen(t)
    \/ \E t \in Threads : StreamDecode(t)
    \/ \E t \in Threads : StreamFails(t)
    \/ \E i \in DOMAIN streams : Finalize(i)

PooledSpec == PooledInit /\ [][PooledNext]_vars

-----------------------------------------------------------------------------
(* Correlation of responses to concurrent send calls *)

\* Every frame written so far carries the id allocated to the call that wrote it.
FramesCarryOwnId == \A w \in written : FrameId(w.frame).val = w.call

\* C1: the response a send call returns is the one whose decoded header id
\* equals the id allocated to the call, and every entry of the results table
\* is stored under its own decoded id (stated for the runs in which every
\* request frame carries the id of its own call).
C1_ResponseReachesOwner ==
    FramesCarryOwnId =>
        /\ \A t \in Threads : pc[t] = "done" => HeaderId(retval[t].val) = reqId[t]
        /\ \A id \in DOMAIN resps : HeaderId(resps[id]) = id

\* C2: with a server that answers every written request with one well-formed
\* frame and a fairly granted receive lock, every send call that has written
\* its request eventually returns, and while it waits it has read no more
\* frames than there are requests outstanding on the connection.
C2_EverySendReturns ==
    /\ \A t \in Threads : (pc[t] = "loop") ~> (pc[t] = "done")
    /\ [](\A t \in Outstanding : polls[t] <= Cardinality(Outstanding))

\* Two calls that overlapped have both returned, each after reading one frame.
C2_Witness ==
    \E t, u \in Threads :
        /\ t # u
        /\ pc[t] = "done" /\ pc[u] = "done"
        /\ polls[t] = 1 /\ polls[u] = 1
        /\ reqId[t] < reqId[u]
        /\ HeaderId(retval[t].val) = reqId[u]

\* C3: the ids _get_next_id returns are strictly increasing in allocation
\* order, so pairwise distinct and never reused, and no two send calls hold
\* the same id.
C3_IdsUniqueIncreasing ==
    /\ \A i, j \in DOMAIN allocated : i < j => allocated[i] < allocated[j]
    /\ \A t, u \in Threads : (t # u /\ reqId[t] # 0 /\ reqId[u] # 0)
                                => reqId[t] # reqId[u]

\* Two calls were inside send at once and both hold an id.
C3_Witness ==
    \E t, u \in Threads :
        /\ t # u
        /\ pc[t] = "set_id" /\ pc[u] = "set_id"
        /\ Len(allocated) = 2

\* Inside the read-decode-store cycle of `with self.conn.lock`.
InCycle(t) == pc[t] \in {"recv", "store", "release"}

\* C4: at most one send call at a time is between acquiring and releasing
\* the receive lock, it is the holder of the lock, and when it is about to
\* release the lock its response is already in the results table.
C4_OneReaderAtATime ==
    /\ \A t, u \in Threads : (InCycle(t) /\ InCycle(u)) => t = u
    /\ \A t \in Threads : InCycle(t) => connLock = t
    /\ \A t \in Threads : pc[t] = "release" => reqId[t] \in DOMAIN resps

\* One waiter is about to release the lock while another waits to acquire it.
C4_Witness ==
    \E t, u \in Threads : pc[t] = "release" /\ pc[u] = "acquire"

\* C5: once a send call has returned its response, the results table holds
\* no entry for that call's id.
C5_EntryRemovedOnReturn ==
    \A t \in Threads : pc[t] = "done" => reqId[t] \notin DOMAIN resps

-----------------------------------------------------------------------------
(* Encoding and decoding *)

\* Some field the encoder reaches is unset, not optional, and present under
\* its condition: written out for the request shapes.
RequiredFieldUnset(m) ==
    \/ \E f \in {"magic", "id", "version", "op", "flags", "ci", "t_id"} :
          ~m.header.val[f].some
    \/ m.cls \in {"GetRequest", "RemoveRequest", "ContainsKeyRequest"} /\ ~m.key.some
    \/ /\ m.cls = "PutRequest"
       /\ \/ ~m.key.some
          \/ ~m.tunits.some
          \/ ~m.value.some
          \/ m.tunits.some /\ m.tunits.val[1] \notin {DEFAULT, INFINITE}
                /\ ~m.lifespan.some
          \/ m.tunits.some /\ m.tunits.val[2] \notin {DEFAULT, INFINITE}
                /\ ~m.max_idle.some

\* C8: a send call ends with EncodeError exactly when its request has a field
\* that is unset, not optional and present under its condition; such a call
\* has written no frame to the connection and read none, and every other
\* call writes its frame.
C8_EncodeErrorBeforeWrite ==
    \A t \in Threads :
        pc[t] \notin {"idle", "get_id", "inc_id", "set_id", "encode"} =>
            /\ (pc[t] = "raised") <=> RequiredFieldUnset(objs[request[t]])
            /\ pc[t] = "raised" =>
                  /\ retval[t] = EncodeError
                  /\ polls[t] = 0
                  /\ \A w \in written : w.call # reqId[t]
            /\ pc[t] \notin {"raised", "write"} =>
                  \E w \in written : w.call = reqId[t]

\* One call failed to encode its request while another returned a response.
C8_Witness ==
    \E t, u \in Threads :
        /\ pc[t] = "raised" /\ retval[t] = EncodeError
        /\ pc[u] = "done" /\ request[u] = 2

\* The shape each response opcode stands for.
ShapeOfOpcode(op) ==
    CASE op = 2 -> "PutResponse"
      [] op = 4 -> "GetResponse"
      [] op = 12 -> "RemoveResponse"
      [] op = 16 -> "ContainsKeyResponse"
      [] op = 24 -> "PingResponse"
      [] op = 80 -> "ErrorResponse"
      [] OTHER -> "none"

\* The header of a frame of Frames, read off its bytes.
FrameHeader(frame) ==
    LET id == ReadUvarint(frame, 2)
    IN  [id |-> id.val, op |-> frame[id.pos], status |-> frame[id.pos + 1],
         tcm |-> frame[id.pos + 2], body |-> SubSeq(frame, id.pos + 3, Len(frame))]

\* The shape has a field after the header that is present under this status.
BodyExpected(op, status) ==
    \/ op = 80
    \/ op = 4 /\ status = OK
    \/ op \in {2, 12} /\ status = OK_WITH_VALUE

\* C9: decode chooses the response shape by the header opcode alone, whatever
\* the status: 0x02 Put, 0x04 Get, 0x0C Remove, 0x10 ContainsKey, 0x18 Ping,
\* 0x50 Error with its message field; any other opcode fails with
\* DecodeError; the response carries the decoded id, status and
\* topology-change marker; a frame of a known opcode decodes unless a field
\* its shape expects is cut short.
C9_ShapeByOpcode ==
    cPc = "decoded" =>
        LET h == FrameHeader(cArg)
        IN  /\ ShapeOfOpcode(h.op) = "none" => cOut = DecodeError
            /\ cOut.ok =>
                  /\ cOut.msg.cls = ShapeOfOpcode(h.op)
                  /\ cOut.msg.header.val.id = Val(h.id)
                  /\ cOut.msg.header.val.op = Val(h.op)
                  /\ cOut.msg.header.val.status = Val(h.status)
                  /\ cOut.msg.header.val.tcm = Val(h.tcm)
                  /\ h.op = 80 => cOut.msg.error_message.some
            /\ cOut.ok <=>
                  /\ ShapeOfOpcode(h.op) # "none"
                  /\ BodyExpected(h.op, h.status) => ReadBytes(h.body, 1).ok

\* An error response was decoded from a frame whose status is OK, and a
\* remove response from a frame with a server error status.
C9_Witness ==
    /\ cPc = "decoded"
    /\ cOut.ok
    /\ \/ cOut.msg.cls = "ErrorResponse" /\ cOut.msg.header.val.status = Val(OK)
       \/ cOut.msg.cls = "RemoveResponse"
            /\ cOut.msg.header.val.status = Val(SERVER_ERR)

\* The bytes of a length-prefixed field.
LengthPrefixed(v) == Uvarint(Len(v)) \o v

\* The wire layout of a request header, field by field.
RequestHeaderBytes(h) ==
    <<h.magic.val>> \o Uvarint(h.id.val) \o <<h.version.val, h.op.val>>
        \o (IF h.cname.some THEN LengthPrefixed(h.cname.val) ELSE <<0>>)
        \o Uvarint(h.flags.val) \o <<h.ci.val>> \o Uvarint(h.t_id.val)

\* C10: the bytes of an encoded Put request are the header, the key, the
\* packed time units, the lifespan varint only if the first unit is neither
\* DEFAULT nor INFINITE, the max-idle varint only if the second unit is
\* neither DEFAULT nor INFINITE, and the value: an omitted varint leaves no
\* byte behind, whatever the field holds.
C10_PutOmitsDefaultTtl ==
    (cPc = "encoded" /\ cArg.cls = "PutRequest" /\ cOut.ok) =>
        cOut.bytes =
            RequestHeaderBytes(cArg.header.val)
            \o LengthPrefixed(cArg.key.val)
            \o <<cArg.tunits.val[1] * 16 + cArg.tunits.val[2]>>
            \o (IF cArg.tunits.val[1] \in {DEFAULT, INFINITE} THEN <<>>
                ELSE Uvarint(cArg.lifespan.val))
            \o (IF cArg.tunits.val[2] \in {DEFAULT, INFINITE} THEN <<>>
                ELSE Uvarint(cArg.max_idle.val))
            \o LengthPrefixed(cArg.value.val)

\* A Put request whose lifespan holds 300 was encoded with the lifespan unit
\* INFINITE and the max-idle unit SECONDS.
C10_Witness ==
    /\ cPc = "encoded"
    /\ cArg.cls = "PutRequest"
    /\ cOut.ok
    /\ cArg.tunits = Val(<<INFINITE, SECONDS>>)
    /\ cArg.lifespan = Val(300)

-----------------------------------------------------------------------------
(* The connection pool *)

\* The streams advanced at least once and neither completed nor cancelled.
Reading == {i \in DOMAIN streams : streams[i].state = "reading"}

\* C6: available is the pool size minus the number of streams advanced and
\* not yet completed or cancelled, and lies between 0 and the pool size; a
\* send and the creation of a stream by recv() leave it unchanged, and the
\* first advance of a stream that starts reading takes exactly 1 from it.
C6_AvailableCountsReadingStreams ==
    /\ [](Available = PoolSize - Cardinality(Reading))
    /\ [](0 <= Available /\ Available <= PoolSize)
    /\ [][(pending' # pending /\ streams' = streams) => Available' = Available]_vars
    /\ [][Len(streams') > Len(streams) => Available' = Available]_vars
    /\ [][\A i \in DOMAIN streams :
            (streams[i].state = "idle" /\ streams'[i].state = "reading")
                => Available' = Available - 1]_vars

\* More streams than connections exist, one connection is read by one of
\* two streams bound to it, and the pool is exhausted.
C6_Witness ==
    /\ Len(streams) > PoolSize
    /\ Available = 0
    /\ \E i, j \in DOMAIN streams :
          /\ i # j
          /\ streams[i].conn = streams[j].conn
          /\ streams[i].state = "reading"
          /\ streams[j].state = "idle"

\* A stream that was advanced and has come to its end.
Ended(i) == streams[i].advanced /\ streams[i].state \in {"done", "cancelled"}

\* C7: an advanced stream that ends, at end-of-data or by early termination,
\* hands its slot back in that step: its connection was busy, is idle after
\* the step and counts in available again; once no stream is reading, every
\* connection is available.
C7_EndedStreamReleasesSlot ==
    /\ [][\A i \in DOMAIN streams :
            (streams[i].state = "reading"
                /\ streams'[i].state \in {"done", "cancelled"})
            => /\ busy[streams[i].conn]
               /\ ~busy'[streams[i].conn]
               /\ Available' = Available + 1]_vars
    /\ []((\A i \in DOMAIN streams : streams[i].state # "reading")
            => Available = PoolSize)

\* One advanced stream ran to end-of-data and another was terminated early,
\* and the whole pool is available again.
C7_Witness ==
    /\ \E i, j \in DOMAIN streams :
          /\ Ended(i) /\ streams[i].state = "done"
          /\ Ended(j) /\ streams[j].state = "cancelled"
    /\ Available = PoolSize
    /\ \A i \in DOMAIN streams : streams[i].state \notin {"idle", "reading"}

-----------------------------------------------------------------------------
(* Failures inside send *)

\* The send calls that ended with a DecodeError.
DecodeFailures == {t \in Threads : pc[t] = "raised" /\ retval[t] = DecodeError}

\* C11: a DecodeError in one waiter's poll aborts only that send call: the
\* failed call does not hold the receive lock, the failing step leaves the
\* results table as it was, and every other send call that returns, returns
\* the response whose header carries the id allocated to it.
C11_DecodeErrorAbortsOnlyWaiter ==
    /\ [](\A t \in DecodeFailures : connLock # t)
    /\ [][\A t \in Threads :
            (pc[t] = "recv" /\ pc'[t] = "raised") => resps' = resps]_vars
    /\ [](DecodeFailures # {} =>
            \A u \in Threads :
                pc[u] = "done" => HeaderId(retval[u].val) = reqId[u])

\* C13: a transport failure during the write or a frame read ends that send
\* call with ConnectionError in the failing step, without the receive lock;
\* the failed call stays ended: it writes no frame and reads none afterwards.
C13_ConnectionErrorEndsCall ==
    /\ [](\A t \in Threads :
            retval[t] = ConnectionError => (pc[t] = "raised" /\ connLock # t))
    /\ [][\A t \in Threads :
            (pc[t] = "raised" /\ retval[t] = ConnectionError) =>
                /\ pc'[t] = "raised"
                /\ polls'[t] = polls[t]
                /\ {w \in written' : w.call = reqId[t]}
                      = {w \in written : w.call = reqId[t]}]_vars

\* One call failed while reading, after its request was written, and another
\* call holds the receive lock with a decoded response; a third case: a call
\* whose write failed.
C13_Witness ==
    \E t, u \in Threads :
        /\ pc[t] = "raised" /\ retval[t] = ConnectionError
        /\ \E w \in written : w.call = reqId[t]
        /\ pc[u] = "store" /\ connLock = u

-----------------------------------------------------------------------------
(* Ids on the wire, streams and connections *)

\* C19: every frame a send call writes carries in its header the id that
\* call allocated and waits for, and no two frames written carry the same id.
C19_FrameCarriesAllocatedId ==
    /\ \A w \in written : FrameId(w.frame).val = w.call
    /\ \A v, w \in written :
          FrameId(v.frame).val = FrameId(w.frame).val => v = w

\* C17: two streams in the reading state are never bound to the same
\* connection, a connection is busy exactly when a reading stream is bound
\* to it, and no step changes the connection a stream is bound to.
C17_OneReadingStreamPerConnection ==
    /\ [](\A i, j \in Reading : streams[i].conn = streams[j].conn => i = j)
    /\ [](\A c \in Conns : busy[c] <=> \E i \in Reading : streams[i].conn = c)
    /\ [][\A i \in DOMAIN streams : streams'[i].conn = streams[i].conn]_vars

\* More streams than connections: three streams on one connection, the first
\* completed, the second reading, the third created and not yet advanced.
C17_Witness ==
    /\ Len(streams) > PoolSize
    /\ \E i, j, k \in DOMAIN streams :
          /\ streams[i].conn = streams[j].conn /\ streams[j].conn = streams[k].conn
          /\ streams[i].state = "done" /\ streams[i].advanced
          /\ streams[j].state = "reading"
          /\ streams[k].state = "idle"

-----------------------------------------------------------------------------
(* Round trip, the ping scenario and conditional fields at decode *)

\* The fields of a header h that were set are the same in header g.
HeaderReproduced(h, g) ==
    \A i \in DOMAIN Fields(h.cls) :
        h[Fields(h.cls)[i]].some => g[Fields(h.cls)[i]] = h[Fields(h.cls)[i]]

\* The names of the fields a shape declares after its header.
BodyFields(cls) == {Fields(cls)[i] : i \in 2..Len(Fields(cls))}

\* The field f of the response m is on the wire: its condition, written out.
OnTheWire(m, f) ==
    CASE m.cls = "GetResponse" -> m.header.val.status = Val(OK)
      [] m.cls \in {"PutResponse", "RemoveResponse"} ->
            m.header.val.status = Val(OK_WITH_VALUE)
      [] OTHER -> TRUE

\* C14 as stated: decoding the bytes of any encoded message, request or
\* response, gives a message of the same shape in which every field that was
\* set has the same value.
C14_RoundTripAllShapes ==
    cPc = "roundtrip" =>
        /\ cOut.ok
        /\ cOut.msg.cls = cArg.cls
        /\ HeaderReproduced(cArg.header.val, cOut.msg.header.val)
        /\ \A f \in BodyFields(cArg.cls) :
              cArg[f].some => cOut.msg[f] = cArg[f]

\* C14 amended: decoding the bytes of an encoded response gives a response
\* of the same shape with the same header fields, in which every field whose
\* condition holds has the same value and every field whose condition is
\* false is unset; the bytes of an encoded request (version 25) do not
\* decode: Protocol.decode fails on them with DecodeError.
C14_RoundTripResponses ==
    cPc = "roundtrip" =>
        IF cArg.cls \in RequestClasses THEN cOut = DecodeError
        ELSE /\ cOut.ok
             /\ cOut.msg.cls = cArg.cls
             /\ HeaderReproduced(cArg.header.val, cOut.msg.header.val)
             /\ \A f \in BodyFields(cArg.cls) :
                   cOut.msg[f] = IF OnTheWire(cArg, f) THEN cArg[f] ELSE Unset

\* A Get response with a two byte id, status OK and a two byte value came
\* back from its own bytes.
C14_Witness ==
    /\ cPc = "roundtrip"
    /\ cArg.cls = "GetResponse"
    /\ cArg.header.val.id = Val(300)
    /\ cArg.value = Val(<<1, 2>>)
    /\ cOut.ok
    /\ cOut.msg.value = Val(<<1, 2>>)

\* C15: a PingRequest with id 1 and the other header fields at their defaults
\* encodes to A0 01 19 17 00 00 01 00, and the bytes A1 01 18 00 00 decode to
\* a PingResponse with id 1 and status OK.
C15_PingScenario ==
    /\ (/\ cPc = "encoded"
        /\ cArg.cls = "PingRequest"
        /\ cArg.header.val.id = Val(1)
        /\ cArg.header.val.version = Val(25)
        /\ cArg.header.val.cname = Unset)
          => cOut = [ok |-> TRUE, bytes |-> <<160, 1, 25, 23, 0, 0, 1, 0>>]
    /\ (cPc = "decoded" /\ cArg = <<161, 1, 24, 0, 0>>)
          => /\ cOut.ok
             /\ cOut.msg.cls = "PingResponse"
             /\ cOut.msg.header.val.id = Val(1)
             /\ cOut.msg.header.val.status = Val(0)

\* The ping request with id 1 was encoded, to eight bytes.
C15_Witness ==
    /\ cPc = "encoded"
    /\ cArg.cls = "PingRequest"
    /\ cArg.header.val.id = Val(1)
    /\ cArg.header.val.version = Val(25)
    /\ cArg.header.val.cname = Unset
    /\ cOut.ok
    /\ Len(cOut.bytes) = 8

\* C16: a Get, Put or Remove response whose condition is false decodes from
\* the header alone, its value slot unset and the decoder left right after
\* the header, whatever bytes follow; when the condition is true the slot
\* holds the length-prefixed bytes that follow the header and the decoder is
\* left right after them.
C16_FalseConditionConsumesNothing ==
    (cPc = "decoded" /\ FrameHeader(cArg).op \in {2, 4, 12}) =>
        LET h == FrameHeader(cArg)
            start == Len(cArg) - Len(h.body) + 1
            slot == IF h.op = 4 THEN cOut.msg.value ELSE cOut.msg.prev_value
        IN  IF BodyExpected(h.op, h.status)
            THEN cOut.ok =>
                    /\ slot = Val(SubSeq(h.body, 2, 1 + h.body[1]))
                    /\ cOut.pos = start + 1 + h.body[1]
            ELSE /\ cOut.ok
                 /\ slot = Unset
                 /\ cOut.pos = start

\* A Get response with status KEY_DOES_NOT_EXISTS was decoded from a frame
\* with three more bytes after the header: no value, the bytes not read.
C16_Witness ==
    /\ cPc = "decoded"
    /\ cOut.ok
    /\ cOut.msg.cls = "GetResponse"
    /\ cOut.msg.header.val.status = Val(KEY_DOES_NOT_EXISTS)
    /\ cOut.msg.value = Unset
    /\ cOut.pos = Len(cArg) - 2

-----------------------------------------------------------------------------
(* Streams and slots of send calls over the pool *)

\* The send calls that ended with a DecodeError or a ConnectionError.
FailedCalls ==
    {t \in Threads : pc[t] = "raised" /\ retval[t] \in {DecodeError, ConnectionError}}

\* The stream of call t is advanced and neither completed nor cancelled.
HoldsSlot(t) == mine[t] # 0 /\ streams[mine[t]].state = "reading"

\* C12: after a send call has ended with a DecodeError or a ConnectionError,
\* the stream it got from recv() is not left reading, so no connection is
\* busy on its behalf, and the results table has no entry under its id.
C12_FailedCallLeavesNothing ==
    \A t \in FailedCalls :
        /\ ~HoldsSlot(t)
        /\ mine[t] # 0 => (\A c \in Conns :
                busy[c] => \E u \in Threads : u # t /\ HoldsSlot(u)
                                               /\ streams[mine[u]].conn = c)
        /\ reqId[t] \notin DOMAIN resps

\* The call has decoded a response from its stream.
Decoded(t) ==
    mine[t] # 0 /\ pc[t] \in {"store", "release", "loop", "return", "done"}

\* C18: once decode has returned a response, the stream it read from is
\* terminated and its slot released in that very step; when send returns,
\* its stream is not reading, and with no other stream reading every
\* connection of the pool is available, as before the call.
C18_DecodedStreamIsDone ==
    /\ [](\A t \in Threads :
            Decoded(t) => streams[mine[t]].state \in {"done", "cancelled"})
    /\ [](\A t \in Threads :
            (pc[t] = "done"
                /\ \A i \in DOMAIN streams : i # mine[t] => streams[i].state # "reading")
            => Available = PoolSize)
    /\ [][\A t \in Threads :
            (pc[t] = "decode" /\ pc'[t] = "store") =>
                /\ streams[mine[t]].state = "reading"
                /\ streams'[mine[t]].state # "reading"
                /\ Available' = Available + 1]_vars

\* Two send calls over the pool have returned, their streams terminated
\* after a read, and the whole pool is available.
C18_Witness ==
    /\ \A t \in Threads :
          /\ pc[t] = "done"
          /\ streams[mine[t]].state = "cancelled"
          /\ streams[mine[t]].advanced
    /\ Available = PoolSize

====
